---- MODULE Spec2Model ----
(***************************************************************************)
(* Model of datashader/utils.py: the raster geometry helpers (calc_res,    *)
(* calc_bbox, get_indices, orient_array, compute_coords,                   *)
(* downsample_aggregate), the Dispatcher registry and the hold() cache.    *)
(*                                                                         *)
(* Floating-point values are modelled as exact extended rationals          *)
(* <<num, den>> in lowest terms with den >= 0: den = 0 encodes the IEEE    *)
(* specials, <<1,0>> = +inf, <<-1,0>> = -inf, <<0,0>> = NaN.  Rounding     *)
(* error of binary floating point is outside the model.                    *)
(***************************************************************************)
EXTENDS Integers, Sequences, FiniteSets, TLC

VARIABLES args, result, lookup, history, last, pcs

vars == <<args, result, lookup, history, last, pcs>>

(* ---------------------------------------------------------------------- *)
(* Bounds of the model                                                    *)
(* ---------------------------------------------------------------------- *)
MaxLen == 3

(* ---------------------------------------------------------------------- *)
(* Extended rational arithmetic standing for float64                      *)
(* ---------------------------------------------------------------------- *)
AbsI(n) == IF n < 0 THEN -n ELSE n

SignI(n) == IF n < 0 THEN -1 ELSE IF n > 0 THEN 1 ELSE 0

RECURSIVE Gcd(_, _)
Gcd(a, b) == IF b = 0 THEN a ELSE Gcd(b, a % b)

Norm(n, d) ==
    IF d = 0 THEN <<SignI(n), 0>>
    ELSE LET g == Gcd(AbsI(n), AbsI(d))
             s == SignI(d)
         IN  <<(s * n) \div g, (s * d) \div g>>

I(n) == <<n, 1>>
Q(n, d) == Norm(n, d)

NaN == <<0, 0>>
PosInf == <<1, 0>>
NegInf == <<-1, 0>>

IsNaN(a) == a = NaN

FNeg(a) == <<-a[1], a[2]>>

FAdd(a, b) ==
    IF a[2] = 0 /\ b[2] = 0
    THEN (IF a = b THEN a ELSE NaN)
    ELSE Norm(a[1] * b[2] + b[1] * a[2], a[2] * b[2])

FSub(a, b) == FAdd(a, FNeg(b))

FMul(a, b) == Norm(a[1] * b[1], a[2] * b[2])

FDiv(a, b) ==
    IF b[2] = 0
    THEN (IF IsNaN(b) \/ a[2] = 0 THEN NaN ELSE I(0))
    ELSE Norm(a[1] * b[2], a[2] * b[1])

FLt(a, b) ==
    IF IsNaN(a) \/ IsNaN(b) THEN FALSE
    ELSE IF a[2] = 0 /\ b[2] = 0 THEN a[1] < b[1]
    ELSE IF a[2] = 0 THEN a[1] < 0
    ELSE IF b[2] = 0 THEN b[1] > 0
    ELSE a[1] * b[2] < b[1] * a[2]

FGt(a, b) == FLt(b, a)

FLe(a, b) == ~IsNaN(a) /\ ~IsNaN(b) /\ ~FLt(b, a)

FAbs(a) == <<AbsI(a[1]), a[2]>>

(* ndarray.min() / ndarray.max() of a non-empty 1D array *)
RECURSIVE ArrMinFrom(_, _, _)
ArrMinFrom(s, k, m) ==
    IF k > Len(s) THEN m
    ELSE ArrMinFrom(s, k + 1, IF FLt(s[k], m) THEN s[k] ELSE m)

ArrMin(s) == ArrMinFrom(s, 2, s[1])

RECURSIVE ArrMaxFrom(_, _, _)
ArrMaxFrom(s, k, m) ==
    IF k > Len(s) THEN m
    ELSE ArrMaxFrom(s, k + 1, IF FGt(s[k], m) THEN s[k] ELSE m)

ArrMax(s) == ArrMaxFrom(s, 2, s[1])

(* s[::-1] *)
Rev(s) == [k \in 1..Len(s) |-> s[Len(s) + 1 - k]]

(* outcome of a call: a returned value or a raised exception *)
NoResult == [kind |-> "none"]
Return(v) == [kind |-> "return", val |-> v]
Raise(e, m) == [kind |-> "raise", exc |-> e, msg |-> m]

(* a uniformly spaced coordinate array x0, x0+step, ... of n points *)
Uniform(x0, step, n) == [k \in 1..n |-> FAdd(x0, FMul(I(k - 1), step))]

Origins == {I(-1), Q(1, 2)}
Steps == {I(-2), Q(-1, 2), I(1), Q(3, 2)}

CoordArrays(minLen) ==
    {Uniform(x0, st, n) : x0 \in Origins, st \in Steps, n \in minLen..MaxLen}

(* ---------------------------------------------------------------------- *)
(* calc_res                                                               *)
(* ---------------------------------------------------------------------- *)
NpErrStates == {"warn", "ignore", "raise"}

(* numpy scalar true division: a zero divisor yields nan/inf (with at    *)
(* most a RuntimeWarning) unless the error state is 'raise'              *)
NpDivide(a, b, errstate) ==
    IF b = I(0) /\ errstate = "raise"
    THEN Raise("FloatingPointError", "divide")
    ELSE Return(FDiv(a, b))

(* mutant: divides by the number of points instead of the intervals *)
calc_res_by_len(raster, errstate) ==
    LET h == Len(raster.y)
        w == Len(raster.x)
        xres == NpDivide(FSub(raster.x[w], raster.x[1]), I(w), errstate)
        yres == NpDivide(FSub(raster.y[1], raster.y[h]), I(h), errstate)
    IN  Return(<<xres.val, yres.val>>)

calc_res(raster, errstate) ==
    LET h == Len(raster.y)
        w == Len(raster.x)
        xcoords == raster.x
        ycoords == raster.y
        xres == NpDivide(FSub(xcoords[w], xcoords[1]), I(w - 1), errstate)
        yres == NpDivide(FSub(ycoords[1], ycoords[h]), I(h - 1), errstate)
    IN  IF xres.kind = "raise" THEN xres
        ELSE IF yres.kind = "raise" THEN yres
        ELSE Return(<<xres.val, yres.val>>)

(* ---------------------------------------------------------------------- *)
(* calc_bbox                                                              *)
(* ---------------------------------------------------------------------- *)
Corners(xs, ys) ==
    << <<0, 0>>, <<0, Len(ys)>>, <<Len(xs), 0>>, <<Len(xs), Len(ys)>> >>

(* np.dot(Ab, [x_, y_, 1.]) for Ab = [[res0, 0, xbound],                  *)
(*                                    [0, -res1, ybound], [0, 0, 1]]      *)
AffineDot(res, xbound, ybound, c) ==
    << FAdd(FAdd(FMul(res[1], I(c[1])), FMul(I(0), I(c[2]))), xbound),
       FAdd(FAdd(FMul(I(0), I(c[1])), FMul(FNeg(res[2]), I(c[2]))), ybound) >>

RECURSIVE BBoxLoop(_, _, _, _, _, _)
BBoxLoop(cs, k, res, xbound, ybound, acc) ==
    IF k > Len(cs) THEN acc
    ELSE LET p == AffineDot(res, xbound, ybound, cs[k])
             x == p[1]
             y == p[2]
         IN  BBoxLoop(cs, k + 1, res, xbound, ybound,
                 [xmin |-> IF FLt(x, acc.xmin) THEN x ELSE acc.xmin,
                  xmax |-> IF FGt(x, acc.xmax) THEN x ELSE acc.xmax,
                  ymin |-> IF FLt(y, acc.ymin) THEN y ELSE acc.ymin,
                  ymax |-> IF FGt(y, acc.ymax) THEN y ELSE acc.ymax])

(* mutant: anchors x at min(xs) whatever the sign of xres *)
calc_bbox_min_anchor(xs, ys, res) ==
    LET xbound == ArrMin(xs)
        ybound == IF FLt(res[2], I(0)) THEN ArrMin(ys) ELSE ArrMax(ys)
        b == BBoxLoop(Corners(xs, ys), 1, res, xbound, ybound,
                 [xmin |-> PosInf, ymin |-> PosInf,
                  xmax |-> NegInf, ymax |-> NegInf])
        xpad == FDiv(res[1], I(2))
        ypad == FDiv(res[2], I(2))
    IN  << FSub(b.xmin, xpad), FAdd(b.ymin, ypad),
           FSub(b.xmax, xpad), FAdd(b.ymax, ypad) >>

calc_bbox(xs, ys, res) ==
    LET xbound == IF FLt(res[1], I(0)) THEN ArrMax(xs) ELSE ArrMin(xs)
        ybound == IF FLt(res[2], I(0)) THEN ArrMin(ys) ELSE ArrMax(ys)
        b == BBoxLoop(Corners(xs, ys), 1, res, xbound, ybound,
                 [xmin |-> PosInf, ymin |-> PosInf,
                  xmax |-> NegInf, ymax |-> NegInf])
        xpad == FDiv(res[1], I(2))
        ypad == FDiv(res[2], I(2))
    IN  << FSub(b.xmin, xpad), FAdd(b.ymin, ypad),
           FSub(b.xmax, xpad), FAdd(b.ymax, ypad) >>

(* ---------------------------------------------------------------------- *)
(* Specification: calc_res on rasters with 1..MaxLen points per axis      *)
(* ---------------------------------------------------------------------- *)
Idle ==
    /\ lookup = << >>
    /\ history = << >>
    /\ last = << >>
    /\ pcs = << >>

InitRes ==
    /\ args \in {[fn |-> "calc_res", raster |-> [x |-> xs, y |-> ys], errstate |-> e] :
                    xs \in CoordArrays(1), ys \in CoordArrays(1), e \in NpErrStates}
    /\ result = NoResult
    /\ Idle

CalcRes ==
    /\ args.fn = "calc_res"
    /\ result = NoResult
    /\ result' = calc_res(args.raster, args.errstate)
    /\ UNCHANGED <<args, lookup, history, last, pcs>>

NextRes == CalcRes

SpecRes == InitRes /\ [][NextRes]_vars

(* the smallest / largest element of an array, stated without a loop *)
LeastOf(s) == CHOOSE m \in {s[k] : k \in 1..Len(s)} :
                  \A k \in 1..Len(s) : FLe(m, s[k])
GreatestOf(s) == CHOOSE m \in {s[k] : k \in 1..Len(s)} :
                     \A k \in 1..Len(s) : FLe(s[k], m)

(* C7 (original statement): with width >= 2 and height >= 2 calc_res      *)
(* returns ((x[-1]-x[0])/(w-1), (y[0]-y[-1])/(h-1)), and with a single    *)
(* point on either axis the call signals a failure instead of returning   *)
(* a resolution pair.                                                     *)
C7_Original ==
    (args.fn = "calc_res" /\ result # NoResult) =>
        LET w == Len(args.raster.x)
            h == Len(args.raster.y)
        IN  IF w >= 2 /\ h >= 2
            THEN /\ result.kind = "return"
                 /\ FMul(result.val[1], I(w - 1))
                        = FSub(args.raster.x[w], args.raster.x[1])
                 /\ FMul(result.val[2], I(h - 1))
                        = FSub(args.raster.y[1], args.raster.y[h])
            ELSE result.kind = "raise"

(* C7 (amended): with width >= 2 and height >= 2 calc_res returns the     *)
(* pair xres, yres with xres*(w-1) = x[-1]-x[0] and yres*(h-1) =          *)
(* y[0]-y[-1]; with a single point on an axis the division is 0/0: under  *)
(* numpy's error state 'raise' the call raises FloatingPointError, and    *)
(* otherwise it returns a pair whose component for every single-point     *)
(* axis is NaN (never a finite resolution).                               *)
C7_CalcRes ==
    (args.fn = "calc_res" /\ result # NoResult) =>
        LET w == Len(args.raster.x)
            h == Len(args.raster.y)
        IN  IF w >= 2 /\ h >= 2
            THEN /\ result.kind = "return"
                 /\ FMul(result.val[1], I(w - 1))
                        = FSub(args.raster.x[w], args.raster.x[1])
                 /\ FMul(result.val[2], I(h - 1))
                        = FSub(args.raster.y[1], args.raster.y[h])
            ELSE IF args.errstate = "raise"
            THEN result.kind = "raise" /\ result.exc = "FloatingPointError"
            ELSE /\ result.kind = "return"
                 /\ (w = 1 => IsNaN(result.val[1]))
                 /\ (h = 1 => IsNaN(result.val[2]))
                 /\ (w >= 2 => FMul(result.val[1], I(w - 1))
                                  = FSub(args.raster.x[w], args.raster.x[1]))
                 /\ (h >= 2 => FMul(result.val[2], I(h - 1))
                                  = FSub(args.raster.y[1], args.raster.y[h]))

C7_Witness ==
    /\ args.fn = "calc_res"
    /\ Len(args.raster.x) = 1
    /\ Len(args.raster.y) = 3
    /\ args.errstate = "warn"
    /\ result.kind = "return"
    /\ IsNaN(result.val[1])
    /\ result.val[2] = I(-1)

(* ---------------------------------------------------------------------- *)
(* Specification: calc_bbox on uniform rasters, res taken from calc_res   *)
(* ---------------------------------------------------------------------- *)
InitBBox ==
    /\ args \in {[fn |-> "calc_bbox", xs |-> xs, ys |-> ys] :
                    xs \in CoordArrays(2), ys \in CoordArrays(2)}
    /\ result = NoResult
    /\ Idle

CalcBBox ==
    /\ args.fn = "calc_bbox"
    /\ result = NoResult
    /\ LET res == calc_res([x |-> args.xs, y |-> args.ys], "warn").val
       IN  result' = Return(calc_bbox(args.xs, args.ys, res))
    /\ UNCHANGED <<args, lookup, history, last, pcs>>

NextBBox == CalcBBox

SpecBBox == InitBBox /\ [][NextBBox]_vars

(* C1: for uniform strictly monotonic xs, ys of length >= 2 and res from  *)
(* the calc_res formulas, calc_bbox returns the outer cell edges          *)
(* (min(xs)-|xres|/2, min(ys)-|yres|/2, max(xs)+|xres|/2,                 *)
(* max(ys)+|yres|/2); so xmin <= xmax, ymin <= ymax, the width is         *)
(* |xres|*len(xs), the height is |yres|*len(ys) and every coordinate lies *)
(* strictly inside the box.                                               *)
C1_BBox ==
    (args.fn = "calc_bbox" /\ result # NoResult) =>
        LET xs == args.xs
            ys == args.ys
            xres == FDiv(FSub(xs[Len(xs)], xs[1]), I(Len(xs) - 1))
            yres == FDiv(FSub(ys[1], ys[Len(ys)]), I(Len(ys) - 1))
            hx == FDiv(FAbs(xres), I(2))
            hy == FDiv(FAbs(yres), I(2))
            b == result.val
        IN  /\ result.kind = "return"
            /\ b = << FSub(LeastOf(xs), hx), FSub(LeastOf(ys), hy),
                      FAdd(GreatestOf(xs), hx), FAdd(GreatestOf(ys), hy) >>
            /\ FLe(b[1], b[3])
            /\ FLe(b[2], b[4])
            /\ FSub(b[3], b[1]) = FMul(FAbs(xres), I(Len(xs)))
            /\ FSub(b[4], b[2]) = FMul(FAbs(yres), I(Len(ys)))
            /\ \A k \in 1..Len(xs) : FLt(b[1], xs[k]) /\ FLt(xs[k], b[3])
            /\ \A k \in 1..Len(ys) : FLt(b[2], ys[k]) /\ FLt(ys[k], b[4])

(* descending x (xres < 0) and descending y (yres > 0), box computed *)
C1_Witness ==
    /\ args.fn = "calc_bbox"
    /\ args.xs = <<I(-1), I(-3), I(-5)>>
    /\ args.ys = <<Q(1, 2), I(0)>>
    /\ result.kind = "return"
    /\ result.val = <<I(-6), Q(-1, 4), I(0), Q(3, 4)>>

(* ---------------------------------------------------------------------- *)
(* get_indices                                                            *)
(* ---------------------------------------------------------------------- *)
(* int(x) of a float: truncation toward zero; nan and inf raise *)
FInt(a) ==
    IF IsNaN(a) THEN Raise("ValueError", "nan to integer")
    ELSE IF a[2] = 0 THEN Raise("OverflowError", "inf to integer")
    ELSE Return(SignI(a[1]) * (AbsI(a[1]) \div a[2]))

(* mutant: moves the upper bound up by half a cell, like the lower one *)
get_indices_end_plus_half(start, end, coords, res) ==
    LET size == Len(coords)
        half == FDiv(FAbs(res), I(2))
        vmin == ArrMin(coords)
        span == FSub(ArrMax(coords), vmin)
        start1 == FSub(FAdd(start, half), vmin)
        end1 == FSub(FAdd(end, half), vmin)
        sidx == FInt(FMul(FDiv(start1, span), I(size)))
        eidx == FInt(FMul(FDiv(end1, span), I(size)))
    IN  IF sidx.kind = "raise" THEN sidx
        ELSE IF eidx.kind = "raise" THEN eidx
        ELSE IF eidx.val < sidx.val THEN Return(<<sidx.val, sidx.val>>)
        ELSE Return(<<sidx.val, eidx.val>>)

get_indices(start, end, coords, res) ==
    LET size == Len(coords)
        half == FDiv(FAbs(res), I(2))
        vmin == ArrMin(coords)
        vmax == ArrMax(coords)
        span == FSub(vmax, vmin)
        start1 == FSub(FAdd(start, half), vmin)
        end1 == FSub(FSub(end, half), vmin)
        sidx == FInt(FMul(FDiv(start1, span), I(size)))
        eidx == FInt(FMul(FDiv(end1, span), I(size)))
    IN  IF sidx.kind = "raise" THEN sidx
        ELSE IF eidx.kind = "raise" THEN eidx
        ELSE IF eidx.val < sidx.val THEN Return(<<sidx.val, sidx.val>>)
        ELSE Return(<<sidx.val, eidx.val>>)

Probes == {Q(-3, 2), I(0), Q(7, 5), Q(18, 5), I(5)}
AxisRes == {I(1), Q(-1, 2)}
Coords04 == <<I(0), I(1), I(2), I(3), I(4)>>

InitIdx ==
    /\ args \in {[fn |-> "get_indices", start |-> s, end |-> e,
                  coords |-> c, res |-> r] :
                    s \in Probes, e \in Probes,
                    c \in CoordArrays(1) \cup {Coords04}, r \in AxisRes}
    /\ result = NoResult
    /\ Idle

GetIndices ==
    /\ args.fn = "get_indices"
    /\ result = NoResult
    /\ result' = get_indices(args.start, args.end, args.coords, args.res)
    /\ UNCHANGED <<args, lookup, history, last, pcs>>

NextIdx == GetIndices

SpecIdx == InitIdx /\ [][NextIdx]_vars

(* n is q with its fractional part dropped (rounded toward zero) *)
IsTrunc(n, q) ==
    /\ FLe(I(AbsI(n)), FAbs(q))
    /\ FLt(FAbs(q), I(AbsI(n) + 1))
    /\ (n # 0 => SignI(n) = SignI(q[1]))

(* the index pair the claim's recipe gives for shifted bounds s1, e1 *)
IndexPairFor(pair, s1, e1, coords) ==
    LET span == FSub(GreatestOf(coords), LeastOf(coords))
        qs == FDiv(FMul(s1, I(Len(coords))), span)
        qe == FDiv(FMul(e1, I(Len(coords))), span)
    IN  /\ IsTrunc(pair[1], qs)
        /\ \E t \in -AbsI(qe[1])..AbsI(qe[1]) :
              /\ IsTrunc(t, qe)
              /\ pair[2] = IF t < pair[1] THEN pair[1] ELSE t

IdxCase ==
    /\ args.fn = "get_indices"
    /\ result # NoResult
    /\ Len(args.coords) >= 2

IdxExample ==
    /\ args.fn = "get_indices"
    /\ args.coords = Coords04
    /\ args.res = I(1)
    /\ args.start = Q(7, 5)
    /\ args.end = Q(18, 5)
    /\ result # NoResult

(* C2 (original statement): get_indices shifts BOTH start and end by      *)
(* +half - vmin, returns (int(start'/span*size), int(end'/span*size)),    *)
(* collapsing to (start_idx, start_idx) when end_idx < start_idx, and for *)
(* coords [0,1,2,3,4], res 1, start 1.4, end 3.6 returns (1, 3).          *)
C2_Original ==
    /\ IdxCase =>
        LET half == FDiv(FAbs(args.res), I(2))
            vmin == LeastOf(args.coords)
        IN  /\ result.kind = "return"
            /\ IndexPairFor(result.val,
                            FSub(FAdd(args.start, half), vmin),
                            FSub(FAdd(args.end, half), vmin), args.coords)
    /\ IdxExample => result = Return(<<1, 3>>)

(* C2 (amended): get_indices shifts start by +half - vmin and end by      *)
(* -half - vmin, returns (int(start'/span*size), int(end'/span*size))     *)
(* with truncation toward zero, collapsing to (start_idx, start_idx) when *)
(* end_idx < start_idx; for coords [0,1,2,3,4], res 1, start 1.4,         *)
(* end 3.6 it returns (2, 3).                                             *)
C2_GetIndices ==
    /\ IdxCase =>
        LET half == FDiv(FAbs(args.res), I(2))
            vmin == LeastOf(args.coords)
        IN  /\ result.kind = "return"
            /\ IndexPairFor(result.val,
                            FSub(FAdd(args.start, half), vmin),
                            FSub(FSub(args.end, half), vmin), args.coords)
    /\ IdxExample => result = Return(<<2, 3>>)

C2_Witness == IdxExample /\ result = Return(<<2, 3>>)

(* ---------------------------------------------------------------------- *)
(* orient_array                                                           *)
(* ---------------------------------------------------------------------- *)
MaxDim == 3
MaxLayers == 2

(* a[:, ::-1] : reverse every row of a 2D array *)
RevCols(a) == [r \in 1..Len(a) |-> Rev(a[r])]

(* a[k] with Python's index rules (negative indices count from the end) *)
PyIndex(a, k) ==
    IF k >= 0 /\ k < Len(a) THEN Return(a[k + 1])
    ELSE IF k < 0 /\ -k <= Len(a) THEN Return(a[Len(a) + k + 1])
    ELSE Raise("IndexError", "index out of bounds")

Orient2D(array, res) ==
    LET a1 == IF FLt(res[1], I(0)) THEN RevCols(array) ELSE array
    IN  IF FGt(res[2], I(0)) THEN Rev(a1) ELSE a1

Orient3D(array, res) ==
    LET a1 == IF FLt(res[1], I(0))
              THEN [l \in 1..Len(array) |-> RevCols(array[l])] ELSE array
    IN  IF FGt(res[2], I(0))
        THEN [l \in 1..Len(a1) |-> Rev(a1[l])] ELSE a1

(* mutant: reverses the rows when yres is negative *)
orient_array_rows_on_negative(raster, hasres, res0, haslayer, layer) ==
    LET res == IF hasres THEN res0 ELSE calc_res(raster, "warn").val
        picked == IF haslayer THEN PyIndex(raster.data, layer - 1)
                  ELSE Return(raster.data)
        ndim == IF haslayer THEN raster.ndim - 1 ELSE raster.ndim
        a1(array) == IF FLt(res[1], I(0)) THEN RevCols(array) ELSE array
    IN  IF picked.kind = "raise" THEN picked
        ELSE IF ndim = 2
        THEN Return(IF FLt(res[2], I(0)) THEN Rev(a1(picked.val))
                    ELSE a1(picked.val))
        ELSE IF ndim = 3 THEN Return(Orient3D(picked.val, res))
        ELSE Raise("IndexError", "too many indices for array")

orient_array(raster, hasres, res0, haslayer, layer) ==
    LET res == IF hasres THEN res0 ELSE calc_res(raster, "warn").val
        picked == IF haslayer THEN PyIndex(raster.data, layer - 1)
                  ELSE Return(raster.data)
        ndim == IF haslayer THEN raster.ndim - 1 ELSE raster.ndim
    IN  IF picked.kind = "raise" THEN picked
        ELSE IF ndim = 2 THEN Return(Orient2D(picked.val, res))
        ELSE IF (FLt(res[1], I(0)) \/ FGt(res[2], I(0))) /\ ndim < 3
        THEN Raise("IndexError", "too many indices for array")
        ELSE Return(Orient3D(picked.val, res))

(* test rasters: every cell holds a value that names its own position *)
Grid2D(h, w, base) == [r \in 1..h |-> [c \in 1..w |-> base + 10 * r + c]]
Grid3D(n, h, w) == [l \in 1..n |-> Grid2D(h, w, 100 * l)]

Rasters2D ==
    {[ndim |-> 2, data |-> Grid2D(h, w, 0),
      x |-> Uniform(I(0), sx, w), y |-> Uniform(I(0), sy, h)] :
        h \in 1..MaxDim, w \in 1..MaxDim, sx \in {I(-1), I(1)}, sy \in {I(-1), I(1)}}

Rasters3D ==
    {[ndim |-> 3, data |-> Grid3D(n, h, w),
      x |-> Uniform(I(0), sx, w), y |-> Uniform(I(0), sy, h)] :
        n \in 1..MaxLayers, h \in 1..MaxDim, w \in 1..MaxDim,
        sx \in {I(-1), I(1)}, sy \in {I(-1), I(1)}}

ResSigns == {I(-1), I(0), I(1)}

OrientInputs(rasters) ==
    {[fn |-> "orient_array", raster |-> ra, hasres |-> TRUE,
      res |-> <<rx, ry>>, haslayer |-> FALSE, layer |-> 0] :
        ra \in rasters, rx \in ResSigns, ry \in ResSigns}
    \cup
    {[fn |-> "orient_array", raster |-> ra, hasres |-> TRUE,
      res |-> <<rx, ry>>, haslayer |-> TRUE, layer |-> k] :
        ra \in rasters, rx \in ResSigns, ry \in ResSigns,
        k \in 0..(MaxLayers + 1)}
    \cup
    {[fn |-> "orient_array", raster |-> ra, hasres |-> FALSE,
      res |-> <<I(0), I(0)>>, haslayer |-> FALSE, layer |-> 0] :
        ra \in rasters}

InitOrient ==
    /\ \/ args \in OrientInputs(Rasters2D)
       \/ args \in OrientInputs(Rasters3D)
    /\ result = NoResult
    /\ Idle

OrientArray ==
    /\ args.fn = "orient_array"
    /\ result = NoResult
    /\ result' = orient_array(args.raster, args.hasres, args.res,
                              args.haslayer, args.layer)
    /\ UNCHANGED <<args, lookup, history, last, pcs>>

NextOrient == OrientArray

SpecOrient == InitOrient /\ [][NextOrient]_vars

(* out is inp with the row/column order decided by the sign of res *)
Reoriented2D(out, inp, res) ==
    LET h == Len(inp)
        w == Len(inp[1])
    IN  /\ Len(out) = h
        /\ \A r \in 1..h :
             /\ Len(out[r]) = w
             /\ \A c \in 1..w :
                  out[r][c] = inp[IF FGt(res[2], I(0)) THEN h + 1 - r ELSE r]
                                 [IF FLt(res[1], I(0)) THEN w + 1 - c ELSE c]

(* C3: orient_array reorders the data only by the axis reversals decided  *)
(* by the sign of res: columns reversed iff xres < 0, rows reversed iff    *)
(* yres > 0; a 3D array gets both reversals on its last two axes with the *)
(* layer axis kept; a given layer (1-based) is selected first; with       *)
(* res = (-1,-1) reversing the result's columns gives back the original.  *)
C3_Orient ==
    (args.fn = "orient_array" /\ args.hasres /\ result # NoResult) =>
        LET ra == args.raster
        IN  /\ (~args.haslayer /\ ra.ndim = 2) =>
                 /\ result.kind = "return"
                 /\ Reoriented2D(result.val, ra.data, args.res)
                 /\ (args.res = <<I(-1), I(-1)>> =>
                        [r \in 1..Len(result.val) |->
                            [c \in 1..Len(result.val[r]) |->
                                result.val[r][Len(result.val[r]) + 1 - c]]]
                          = ra.data)
            /\ (~args.haslayer /\ ra.ndim = 3) =>
                 /\ result.kind = "return"
                 /\ Len(result.val) = Len(ra.data)
                 /\ \A l \in 1..Len(ra.data) :
                        Reoriented2D(result.val[l], ra.data[l], args.res)
            /\ (args.haslayer /\ ra.ndim = 3
                    /\ args.layer \in 1..Len(ra.data)) =>
                 /\ result.kind = "return"
                 /\ Reoriented2D(result.val, ra.data[args.layer], args.res)

(* second layer of a 2-layer 2x3 raster, both axes reversed *)
C3_Witness ==
    /\ args.fn = "orient_array"
    /\ args.haslayer /\ args.layer = 2
    /\ args.res = <<I(-1), I(1)>>
    /\ args.raster.ndim = 3
    /\ args.raster.data = Grid3D(2, 2, 3)
    /\ result = Return(<< <<223, 222, 221>>, <<213, 212, 211>> >>)

(* ---------------------------------------------------------------------- *)
(* compute_coords                                                         *)
(* ---------------------------------------------------------------------- *)
MaxWidth == 4

(* np.linspace(start, stop, num): num points, both ends included *)
Linspace(start, stop, num) ==
    LET step == FDiv(FSub(stop, start), I(num - 1))
    IN  [k \in 1..num |->
            IF num > 1 /\ k = num THEN stop
            ELSE IF k = 1 THEN start
            ELSE FAdd(start, FMul(I(k - 1), step))]

(* mutant: spreads the points over the outer edges, without the half-cell pad *)
compute_coords_no_pad(width, height, x_range, y_range, res) ==
    LET xs == Linspace(x_range[1], x_range[2], width)
        ys == Linspace(y_range[1], y_range[2], height)
    IN  << IF FLt(res[1], I(0)) THEN Rev(xs) ELSE xs,
           IF FGt(res[2], I(0)) THEN Rev(ys) ELSE ys >>

compute_coords(width, height, x_range, y_range, res) ==
    LET x0 == x_range[1]
        x1 == x_range[2]
        y0 == y_range[1]
        y1 == y_range[2]
        xd == FDiv(FSub(x1, x0), I(width))
        yd == FDiv(FSub(y1, y0), I(height))
        xpad == FAbs(FDiv(xd, I(2)))
        ypad == FAbs(FDiv(yd, I(2)))
        xs == Linspace(FAdd(x0, xpad), FSub(x1, xpad), width)
        ys == Linspace(FAdd(y0, ypad), FSub(y1, ypad), height)
    IN  << IF FLt(res[1], I(0)) THEN Rev(xs) ELSE xs,
           IF FGt(res[2], I(0)) THEN Rev(ys) ELSE ys >>

Ranges == {<<lo, hi>> : lo \in {I(0), Q(-1, 2)}, hi \in {I(4), I(1), I(-1)}}

InitCoords ==
    /\ args \in {[fn |-> "compute_coords", width |-> w, height |-> h,
                  x_range |-> xr, y_range |-> yr, res |-> <<rx, ry>>] :
                    w \in 1..MaxWidth, h \in 1..MaxWidth,
                    xr \in Ranges, yr \in Ranges,
                    rx \in ResSigns, ry \in ResSigns}
    /\ result = NoResult
    /\ Idle

ComputeCoords ==
    /\ args.fn = "compute_coords"
    /\ result = NoResult
    /\ result' = Return(compute_coords(args.width, args.height, args.x_range,
                                       args.y_range, args.res))
    /\ UNCHANGED <<args, lookup, history, last, pcs>>

NextCoords == ComputeCoords

SpecCoords == InitCoords /\ [][NextCoords]_vars

(* cs holds the n bin centers of the range rng, in ascending order, or in  *)
(* descending order when reversed                                         *)
BinCenters(cs, n, rng, reversed) ==
    /\ Len(cs) = n
    /\ \A k \in 0..(n - 1) :
          FMul(I(2 * n), FSub(cs[IF reversed THEN n - k ELSE k + 1], rng[1]))
              = FMul(I(2 * k + 1), FSub(rng[2], rng[1]))

(* C4: for width, height >= 1 and ranges with x0 < x1, y0 < y1,           *)
(* compute_coords returns exactly width x-values and height y-values that *)
(* are the bin centers x0 + (i + 1/2)*(x1-x0)/width and                   *)
(* y0 + (j + 1/2)*(y1-y0)/height; x ascending unless xres < 0, y          *)
(* ascending unless yres > 0; width 4, x_range (0,4), xres > 0 gives      *)
(* [0.5, 1.5, 2.5, 3.5].                                                  *)
C4_Coords ==
    (args.fn = "compute_coords" /\ result # NoResult) =>
        /\ result.kind = "return"
        /\ FLt(args.x_range[1], args.x_range[2]) =>
              BinCenters(result.val[1], args.width, args.x_range,
                         FLt(args.res[1], I(0)))
        /\ FLt(args.y_range[1], args.y_range[2]) =>
              BinCenters(result.val[2], args.height, args.y_range,
                         FGt(args.res[2], I(0)))
        /\ (args.width = 4 /\ args.x_range = <<I(0), I(4)>>
                /\ FGt(args.res[1], I(0))) =>
              result.val[1] = <<Q(1, 2), Q(3, 2), Q(5, 2), Q(7, 2)>>

C4_Witness ==
    /\ args.fn = "compute_coords"
    /\ args.width = 4 /\ args.x_range = <<I(0), I(4)>>
    /\ args.height = 2 /\ args.y_range = <<Q(-1, 2), I(1)>>
    /\ args.res = <<I(1), I(1)>>
    /\ result.kind = "return"
    /\ result.val = << <<Q(1, 2), Q(3, 2), Q(5, 2), Q(7, 2)>>,
                       <<Q(5, 8), Q(-1, 8)>> >>

(* ---------------------------------------------------------------------- *)
(* downsample_aggregate                                                   *)
(* ---------------------------------------------------------------------- *)
MaxRows == 5
MaxFactor == 3

(* a 2D ndarray: its shape and its rows (shape is kept for empty arrays) *)
Arr(nr, nc, rows) == [shape |-> <<nr, nc>>, rows |-> rows]

(* Python's a % b for b # 0: the result takes the sign of b *)
PyMod(a, b) == IF b > 0 THEN a % b ELSE -((-a) % (-b))

(* number of indices start, start+step, ... below n (a[start::step]) *)
StrideLen(n, start, step) ==
    IF start >= n THEN 0 ELSE (n - start + step - 1) \div step

(* a[:rstop, :cstop] for non-negative stops (a stop past the end is clamped) *)
Crop(a, rstop, cstop) ==
    LET nr == IF rstop < a.shape[1] THEN rstop ELSE a.shape[1]
        nc == IF cstop < a.shape[2] THEN cstop ELSE a.shape[2]
    IN  Arr(nr, nc, [r \in 1..nr |-> [c \in 1..nc |-> a.rows[r][c]]])

(* a[i::f, j::f] *)
Strided(a, i, j, f) ==
    LET nr == StrideLen(a.shape[1], i, f)
        nc == StrideLen(a.shape[2], j, f)
    IN  Arr(nr, nc, [r \in 1..nr |-> [c \in 1..nc |->
                        a.rows[i + (r - 1) * f + 1][j + (c - 1) * f + 1]]])

(* the values of a 1D sequence that are not NaN *)
RECURSIVE DropNaN(_)
DropNaN(v) ==
    IF v = << >> THEN << >>
    ELSE IF IsNaN(Head(v)) THEN DropNaN(Tail(v))
    ELSE <<Head(v)>> \o DropNaN(Tail(v))

RECURSIVE SumSeq(_)
SumSeq(v) == IF v = << >> THEN I(0) ELSE FAdd(Head(v), SumSeq(Tail(v)))

MeanSeq(v) == IF v = << >> THEN NaN ELSE FDiv(SumSeq(v), I(Len(v)))

(* insertion into an ascending sequence *)
RECURSIVE Insert(_, _)
Insert(x, v) ==
    IF v = << >> THEN <<x>>
    ELSE IF FLe(x, Head(v)) THEN <<x>> \o v
    ELSE <<Head(v)>> \o Insert(x, Tail(v))

RECURSIVE SortAsc(_)
SortAsc(v) == IF v = << >> THEN << >> ELSE Insert(Head(v), SortAsc(Tail(v)))

MedianSeq(v) ==
    LET srt == SortAsc(v)
        n == Len(v)
    IN  IF n = 0 THEN NaN
        ELSE IF n % 2 = 1 THEN srt[(n + 1) \div 2]
        ELSE FDiv(FAdd(srt[n \div 2], srt[n \div 2 + 1]), I(2))

VarSeq(v) ==
    LET m == MeanSeq(v)
    IN  IF v = << >> THEN NaN
        ELSE MeanSeq([k \in 1..Len(v) |->
                         FMul(FSub(v[k], m), FSub(v[k], m))])

(* the square root of a variance, kept symbolic *)
Sqrt(x) == [sqrt |-> x]

Hows == {"mean", "sum", "max", "min", "median", "std", "var"}

(* np.nanmean, np.nansum, ... of the 1D sequence v *)
NanReduce(how, v) ==
    LET w == DropNaN(v)
    IN  CASE how = "mean" -> MeanSeq(w)
          [] how = "sum" -> SumSeq(w)
          [] how = "max" -> IF w = << >> THEN NaN ELSE ArrMax(w)
          [] how = "min" -> IF w = << >> THEN NaN ELSE ArrMin(w)
          [] how = "median" -> MedianSeq(w)
          [] how = "std" -> Sqrt(VarSeq(w))
          [] how = "var" -> VarSeq(w)

(* the list [[crarr[i::f, j::f] for i in range(f)] for j in range(f)],    *)
(* concatenated along axis 0: block k (from 0) has j = k div f, i = k mod f *)
Concat(crarr, f) ==
    [k \in 1..(f * f) |-> Strided(crarr, (k - 1) % f, (k - 1) \div f, f)]

(* reduction of a stack of equally shaped arrays along axis 0 *)
ReduceAxis0(how, stack) ==
    LET nr == stack[1].shape[1]
        nc == stack[1].shape[2]
    IN  Arr(nr, nc, [r \in 1..nr |-> [c \in 1..nc |->
            NanReduce(how, [k \in 1..Len(stack) |-> stack[k].rows[r][c]])]])

HowError ==
    Raise("ValueError",
          "Invalid 'how' downsample method. Options mean, sum, max, min, median, std, var")

(* mutant: both axes are sliced from the same offset (crarr[i::f, i::f]) *)
downsample_aggregate_same_offset(aggregate, factor, how) ==
    LET ys == aggregate.shape[1]
        xs == aggregate.shape[2]
        crarr == Crop(aggregate, ys - PyMod(ys, factor), xs - PyMod(xs, factor))
        concat == [k \in 1..(factor * factor) |->
                      Strided(crarr, (k - 1) % factor, (k - 1) % factor, factor)]
    IN  IF factor = 0
        THEN Raise("ZeroDivisionError", "integer division or modulo by zero")
        ELSE IF factor < 0
        THEN Raise("ValueError", "need at least one array to concatenate")
        ELSE IF how \in Hows THEN Return(ReduceAxis0(how, concat))
        ELSE HowError

(* mutant: an unknown selector silently falls back to the mean *)
downsample_aggregate_default_mean(aggregate, factor, how) ==
    LET ys == aggregate.shape[1]
        xs == aggregate.shape[2]
        crarr == Crop(aggregate, ys - PyMod(ys, factor), xs - PyMod(xs, factor))
    IN  IF factor = 0
        THEN Raise("ZeroDivisionError", "integer division or modulo by zero")
        ELSE IF factor < 0
        THEN Raise("ValueError", "need at least one array to concatenate")
        ELSE Return(ReduceAxis0(IF how \in Hows THEN how ELSE "mean",
                                Concat(crarr, factor)))

downsample_aggregate(aggregate, factor, how) ==
    LET ys == aggregate.shape[1]
        xs == aggregate.shape[2]
        crarr == Crop(aggregate, ys - PyMod(ys, factor), xs - PyMod(xs, factor))
        concat == Concat(crarr, factor)
    IN  IF factor = 0
        THEN Raise("ZeroDivisionError", "integer division or modulo by zero")
        ELSE IF factor < 0
        THEN Raise("ValueError", "need at least one array to concatenate")
        ELSE IF how \in Hows THEN Return(ReduceAxis0(how, concat))
        ELSE HowError

(* input arrays: constant 2.0, position-coded, position-coded with NaN    *)
(* holes, and all-NaN                                                     *)
Fill(kind, r, c) ==
    CASE kind = "twos" -> I(2)
      [] kind = "coded" -> I(10 * r + c)
      [] kind = "holes" -> IF (r + 2 * c) % 3 = 0 THEN NaN ELSE Q(r - 3 * c, 2)
      [] kind = "nans" -> NaN

Aggregates ==
    {Arr(nr, nc, [r \in 1..nr |-> [c \in 1..nc |-> Fill(kind, r, c)]]) :
        nr \in 1..MaxRows, nc \in 1..MaxRows,
        kind \in {"twos", "coded", "holes", "nans"}}

InitDown ==
    /\ args \in {[fn |-> "downsample_aggregate", aggregate |-> a,
                  factor |-> f, how |-> h] :
                    a \in Aggregates, f \in -1..MaxFactor,
                    h \in Hows \cup {"average"}}
    /\ result = NoResult
    /\ Idle

DownsampleAggregate ==
    /\ args.fn = "downsample_aggregate"
    /\ result = NoResult
    /\ result' = downsample_aggregate(args.aggregate, args.factor, args.how)
    /\ UNCHANGED <<args, lookup, history, last, pcs>>

NextDown == DownsampleAggregate

SpecDown == InitDown /\ [][NextDown]_vars

(* the factor x factor input cells of output cell (r, c), rows first *)
BlockCells(a, f, r, c) ==
    [k \in 1..(f * f) |->
        a.rows[(r - 1) * f + ((k - 1) \div f) + 1][(c - 1) * f + ((k - 1) % f) + 1]]

BlockIndices(f, r, c) ==
    {<<(r - 1) * f + i, (c - 1) * f + j>> : i \in 1..f, j \in 1..f}

RECURSIVE TotalOver(_, _)
TotalOver(a, idx) ==
    IF idx = {} THEN I(0)
    ELSE LET p == CHOOSE q \in idx : TRUE
             v == a.rows[p[1]][p[2]]
         IN  FAdd(IF IsNaN(v) THEN I(0) ELSE v, TotalOver(a, idx \ {p}))

(* m is the largest (dir = 1) or smallest (dir = -1) non-NaN cell of the  *)
(* block, or NaN when the block holds no value                            *)
ExtremeOver(m, a, idx, dir) ==
    LET vals == {a.rows[p[1]][p[2]] : p \in idx} \ {NaN}
    IN  IF vals = {} THEN IsNaN(m)
        ELSE /\ m \in vals
             /\ \A v \in vals : IF dir = 1 THEN FLe(v, m) ELSE FLe(m, v)

DownCase ==
    /\ args.fn = "downsample_aggregate"
    /\ result # NoResult
    /\ args.factor >= 1
    /\ args.how \in Hows

(* C5: for an array of shape (rows, cols) and integer factor >= 1 the     *)
(* result has shape (rows div factor, cols div factor); cell (r, c) is    *)
(* the selected reduction over exactly the factor*factor input cells      *)
(* in[r*factor+i][c*factor+j], NaN cells ignored; trailing rows and       *)
(* columns past the largest multiple of factor never influence the result *)
(* and a 4x4 array of 2.0 with factor 2 and how 'sum' gives 2x2 of 8.0.   *)
C5_Downsample ==
    DownCase =>
        LET a == args.aggregate
            f == args.factor
            nr == a.shape[1] \div f
            nc == a.shape[2] \div f
            out == result.val
        IN  /\ result.kind = "return"
            /\ out.shape = <<nr, nc>>
            /\ Len(out.rows) = nr
            /\ \A r \in 1..nr :
                 /\ Len(out.rows[r]) = nc
                 /\ \A c \in 1..nc :
                      /\ out.rows[r][c]
                            = NanReduce(args.how, BlockCells(a, f, r, c))
                      /\ args.how = "sum" =>
                            out.rows[r][c] = TotalOver(a, BlockIndices(f, r, c))
                      /\ args.how = "max" =>
                            ExtremeOver(out.rows[r][c], a, BlockIndices(f, r, c), 1)
                      /\ args.how = "min" =>
                            ExtremeOver(out.rows[r][c], a, BlockIndices(f, r, c), -1)
            /\ result = downsample_aggregate(Crop(a, nr * f, nc * f), f, args.how)
            /\ (a.shape = <<4, 4>> /\ f = 2 /\ args.how = "sum"
                    /\ \A r \in 1..4 : \A c \in 1..4 : a.rows[r][c] = I(2)) =>
                  out.rows = << <<I(8), I(8)>>, <<I(8), I(8)>> >>

(* a 5x5 array with NaN holes, factor 2, maximum of each 2x2 block *)
C5_Witness ==
    /\ DownCase
    /\ args.aggregate.shape = <<5, 5>>
    /\ args.aggregate.rows[1][1] = NaN
    /\ args.factor = 2
    /\ args.how = "max"
    /\ result.kind = "return"
    /\ result.val.shape = <<2, 2>>
    /\ result.val.rows[1] = <<Q(-1, 2), Q(-7, 2)>>

(* C6 (original statement): downsample_aggregate fails with the one       *)
(* InvalidArgument kind (the ValueError enumerating the seven selectors)  *)
(* whenever how is not one of them, for every array and factor >= 1, and  *)
(* fails with that same error kind whenever factor is zero or negative.   *)
C6_Original ==
    (args.fn = "downsample_aggregate" /\ result # NoResult) =>
        /\ (args.factor >= 1 /\ args.how \notin Hows) => result = HowError
        /\ args.factor <= 0 =>
              result.kind = "raise" /\ result.exc = HowError.exc

(* C6 (amended): for every 2D array and integer factor >= 1 an unknown    *)
(* selector makes downsample_aggregate raise the ValueError enumerating   *)
(* the seven selectors and return nothing; a zero factor raises           *)
(* ZeroDivisionError and a negative factor raises numpy's different       *)
(* ValueError (nothing to concatenate), both before the selector is       *)
(* looked at and without a result.                                        *)
C6_DownErrors ==
    (args.fn = "downsample_aggregate" /\ result # NoResult) =>
        /\ (args.factor >= 1 /\ args.how \notin Hows) => result = HowError
        /\ (args.factor >= 1 /\ args.how \in Hows) => result.kind = "return"
        /\ args.factor = 0 =>
              result.kind = "raise" /\ result.exc = "ZeroDivisionError"
        /\ args.factor < 0 =>
              /\ result.kind = "raise"
              /\ result.exc = "ValueError"
              /\ result.msg # HowError.msg

C6_Witness ==
    /\ args.fn = "downsample_aggregate"
    /\ args.how = "average"
    /\ args.factor = 2
    /\ args.aggregate.shape = <<5, 4>>
    /\ result = HowError

(* ---------------------------------------------------------------------- *)
(* Dispatcher                                                             *)
(* ---------------------------------------------------------------------- *)
MaxRegs == 3

(* the classes of the example program and inspect.getmro of each:         *)
(* class A, class B, class C(A, B), class D(B, A)                         *)
Types == {"object", "A", "B", "C", "D"}

getmro(typ) ==
    CASE typ = "object" -> <<"object">>
      [] typ = "A" -> <<"A", "object">>
      [] typ = "B" -> <<"B", "object">>
      [] typ = "C" -> <<"C", "A", "B", "object">>
      [] typ = "D" -> <<"D", "B", "A", "object">>

Funcs == {"f", "g"}

(* the typ argument of register: one class, or a tuple of classes *)
OneType(t) == [istuple |-> FALSE, elems |-> <<t>>]
TupleOf(ts) == [istuple |-> TRUE, elems |-> ts]

TypArgs ==
    {OneType(t) : t \in Types}
    \cup {TupleOf(ts) : ts \in {<<"A", "B">>, <<"C", "object">>, <<"D">>}}

(* self._lookup[typ] = func *)
SetItem(lk, typ, func) ==
    [c \in DOMAIN lk \cup {typ} |-> IF c = typ THEN func ELSE lk[c]]

(* register(typ, func) with func given: the lookup table afterwards *)
RECURSIVE register(_, _, _)
register(lk, typ, func) ==
    IF typ.istuple
    THEN IF typ.elems = << >> THEN lk
         ELSE register(register(lk, OneType(Head(typ.elems)), func),
                       TupleOf(Tail(typ.elems)), func)
    ELSE SetItem(lk, typ.elems[1], func)

RECURSIVE MroFallback(_, _, _)
MroFallback(lk, mro, k) ==
    IF k > Len(mro) THEN Raise("TypeError", "No dispatch for type")
    ELSE IF mro[k] \in DOMAIN lk THEN Return(lk[mro[k]])
    ELSE MroFallback(lk, mro, k + 1)

RECURSIVE MroFallbackDown(_, _, _)
MroFallbackDown(lk, mro, k) ==
    IF k < 2 THEN Raise("TypeError", "No dispatch for type")
    ELSE IF mro[k] \in DOMAIN lk THEN Return(lk[mro[k]])
    ELSE MroFallbackDown(lk, mro, k - 1)

(* mutant: the fallback walks the MRO from the most basic class *)
Dispatch_base_first(lk, typ) ==
    IF typ \in DOMAIN lk THEN Return(lk[typ])
    ELSE MroFallbackDown(lk, getmro(typ), Len(getmro(typ)))

(* Dispatcher.__call__ on a head of type typ: the handler invoked *)
Dispatch(lk, typ) ==
    IF typ \in DOMAIN lk THEN Return(lk[typ])
    ELSE MroFallback(lk, getmro(typ), 2)

InitDispatch ==
    /\ args = [fn |-> "Dispatcher", head |-> "object"]
    /\ result = NoResult
    /\ lookup = << >>
    /\ history = << >>
    /\ last = << >>
    /\ pcs = << >>

(* d.register(typ, func) *)
Register ==
    \E typ \in TypArgs, func \in Funcs :
        /\ args.fn = "Dispatcher"
        /\ Len(history) < MaxRegs
        /\ lookup' = register(lookup, typ, func)
        /\ history' = Append(history, [typ |-> typ, func |-> func])
        /\ result' = NoResult
        /\ UNCHANGED <<args, last, pcs>>

(* @d.register(typ) applied to func: the closure calls register(typ, f) *)
RegisterDecorator ==
    \E typ \in TypArgs, func \in Funcs :
        /\ args.fn = "Dispatcher"
        /\ Len(history) < MaxRegs
        /\ lookup' = register(lookup, typ, func)
        /\ history' = Append(history, [typ |-> typ, func |-> func])
        /\ result' = NoResult
        /\ UNCHANGED <<args, last, pcs>>

(* d(head) for a head whose type is typ *)
Call ==
    \E typ \in Types :
        /\ args.fn = "Dispatcher"
        /\ result = NoResult
        /\ args' = [args EXCEPT !.head = typ]
        /\ result' = Dispatch(lookup, typ)
        /\ UNCHANGED <<lookup, history, last, pcs>>

NextDispatch == Register \/ RegisterDecorator \/ Call

SpecDispatch == InitDispatch /\ [][NextDispatch]_vars

(* the register calls, by position in the history, that name class c *)
RegsFor(c) ==
    {k \in 1..Len(history) :
        \E e \in 1..Len(history[k].typ.elems) : history[k].typ.elems[e] = c}

Registered(c) == RegsFor(c) # {}

(* the handler of the latest register call naming c *)
CurrentHandler(c) ==
    history[CHOOSE k \in RegsFor(c) : \A j \in RegsFor(c) : j <= k].func

(* C9: after any sequence of register calls (a tuple registers each       *)
(* member, a later registration replaces an earlier one) a call with a    *)
(* value of type T invokes the handler currently registered for T when    *)
(* there is one, otherwise the handler of the first class after T in T's  *)
(* MRO that has a registration, and raises TypeError when no class of the *)
(* MRO is registered.                                                     *)
C9_Dispatch ==
    (args.fn = "Dispatcher" /\ result # NoResult) =>
        LET mro == getmro(args.head)
            hits == {k \in 1..Len(mro) : Registered(mro[k])}
        IN  IF hits = {}
            THEN result.kind = "raise" /\ result.exc = "TypeError"
            ELSE LET first == CHOOSE k \in hits : \A j \in hits : k <= j
                 IN  result = Return(CurrentHandler(mro[first]))

(* D(B, A) falls back to B, whose handler g replaced f; A holds f too *)
C9_Witness ==
    /\ args.fn = "Dispatcher"
    /\ args.head = "D"
    /\ history = << [typ |-> TupleOf(<<"A", "B">>), func |-> "f"],
                    [typ |-> OneType("B"), func |-> "g"] >>
    /\ result = Return("g")

(* ---------------------------------------------------------------------- *)
(* hold: one caller at a time                                             *)
(* ---------------------------------------------------------------------- *)
MaxCalls == 3

ArgTuples == {<<1>>, <<2>>, <<1, 2>>}
Vals == {10, 20}

(* the deterministic functions f that are wrapped *)
Wrapped == [ArgTuples -> Vals]

(* `not last or last[0] != args` *)
Miss(slot, a) == slot = << >> \/ slot[1] # a

(* mutant: only an empty slot counts as a miss *)
hold_call_first_only(slot, f, a) ==
    LET miss == slot = << >>
        after == IF miss THEN <<a, f[a]>> ELSE slot
    IN  [last |-> after, ret |-> after[2], invoked |-> miss]

(* one call the wrapper of the wrapper: the slot afterwards, the value       *)
(* returned and whether f was invoked                                     *)
hold_call(slot, f, a) ==
    LET miss == Miss(slot, a)
        after == IF miss THEN <<a, f[a]>> ELSE slot
    IN  [last |-> after, ret |-> after[2], invoked |-> miss]

InitHold ==
    /\ args \in {[fn |-> "hold", f |-> f] : f \in Wrapped}
    /\ result = NoResult
    /\ last = << >>
    /\ history = << >>
    /\ lookup = << >>
    /\ pcs = << >>

HoldCall ==
    \E a \in ArgTuples :
        /\ args.fn = "hold"
        /\ Len(history) < MaxCalls
        /\ LET c == hold_call(last, args.f, a)
           IN  /\ last' = c.last
               /\ result' = Return(c.ret)
               /\ history' = Append(history,
                      [args |-> a, ret |-> c.ret, invoked |-> c.invoked,
                       before |-> last, after |-> c.last])
        /\ UNCHANGED <<args, lookup, pcs>>

NextHold == HoldCall

SpecHold == InitHold /\ [][NextHold]_vars

Computing == {k \in 1..Len(history) : history[k].invoked}

(* C8: for g = hold(f), f deterministic, one caller at a time: the single *)
(* slot holds the (arguments, result) pair of the most recent call that   *)
(* computed; every call returns f of its own arguments; f is invoked iff  *)
(* the slot is empty or its stored arguments differ from the call's; a    *)
(* call with the stored arguments returns the stored result, does not     *)
(* invoke f and leaves the slot unchanged.                                *)
C8_Hold ==
    args.fn = "hold" =>
        /\ IF Computing = {} THEN last = << >>
           ELSE LET k == CHOOSE i \in Computing : \A j \in Computing : j <= i
                IN  last = <<history[k].args, args.f[history[k].args]>>
        /\ \A k \in 1..Len(history) :
             LET e == history[k]
                 stored == IF k = 1 THEN << >> ELSE history[k - 1].after
             IN  /\ e.before = stored
                 /\ e.ret = args.f[e.args]
                 /\ e.invoked <=> (stored = << >> \/ stored[1] # e.args)
                 /\ (stored # << >> /\ stored[1] = e.args) =>
                        /\ e.ret = stored[2]
                        /\ ~e.invoked
                        /\ e.after = stored
        /\ (history # << >> /\ result # NoResult) =>
              /\ result = Return(history[Len(history)].ret)
              /\ last = history[Len(history)].after

(* a miss, a hit on the stored arguments, then a miss that replaces them *)
C8_Witness ==
    /\ args.fn = "hold"
    /\ args.f[<<1>>] = 10 /\ args.f[<<1, 2>>] = 20
    /\ Len(history) = 3
    /\ history[1].args = <<1>> /\ history[1].invoked
    /\ history[2].args = <<1>> /\ ~history[2].invoked /\ history[2].ret = 10
    /\ history[3].args = <<1, 2>> /\ history[3].invoked
    /\ last = << <<1, 2>>, 20 >>
    /\ result = Return(20)

(* ---------------------------------------------------------------------- *)
(* hold: two threads calling concurrently                                 *)
(* ---------------------------------------------------------------------- *)
MaxRounds == 2

Threads == {1, 2}

(* mutant: one `last` list shared by every wrapper *)
SlotOf_global(shared, t) == 1

(* the list `last` a thread's wrapper closes over: hold(f) creates one    *)
(* per wrapper, so a shared wrapper means a shared list                   *)
SlotOf(shared, t) == IF shared THEN 1 ELSE t

InitHoldMT ==
    /\ args \in {[fn |-> "hold_threads", f |-> f, shared |-> sh] :
                    f \in Wrapped, sh \in BOOLEAN}
    /\ result = NoResult
    /\ last = [i \in Threads |-> << >>]
    /\ pcs = [t \in Threads |->
                [pc |-> "idle", a |-> <<1>>, tmp |-> 10, ret |-> 10, n |-> 0]]
    /\ history = << >>
    /\ lookup = << >>

MySlot(t) == last[SlotOf(args.shared, t)]

(* the thread enters the wrapper *)
Enter(t) ==
    \E a \in ArgTuples :
        /\ args.fn = "hold_threads"
        /\ pcs[t].pc \in {"idle", "done"}
        /\ pcs[t].n < MaxRounds
        /\ pcs' = [pcs EXCEPT ![t] =
                      [pc |-> "check", a |-> a, tmp |-> 10, ret |-> 10,
                       n |-> pcs[t].n + 1]]
        /\ UNCHANGED <<args, result, lookup, history, last>>

(* if not last or last[0] != args *)
Check(t) ==
    /\ args.fn = "hold_threads"
    /\ pcs[t].pc = "check"
    /\ pcs' = [pcs EXCEPT ![t].pc =
                  IF Miss(MySlot(t), pcs[t].a) THEN "compute" ELSE "read"]
    /\ UNCHANGED <<args, result, lookup, history, last>>

(* the call of f, evaluated before the slice assignment *)
Compute(t) ==
    /\ args.fn = "hold_threads"
    /\ pcs[t].pc = "compute"
    /\ pcs' = [pcs EXCEPT ![t].pc = "store", ![t].tmp = args.f[pcs[t].a]]
    /\ UNCHANGED <<args, result, lookup, history, last>>

(* last[:] = args, <value> *)
Store(t) ==
    /\ args.fn = "hold_threads"
    /\ pcs[t].pc = "store"
    /\ last' = [last EXCEPT ![SlotOf(args.shared, t)] = <<pcs[t].a, pcs[t].tmp>>]
    /\ pcs' = [pcs EXCEPT ![t].pc = "read"]
    /\ UNCHANGED <<args, result, lookup, history>>

(* return last[1] *)
ReadSlot(t) ==
    /\ args.fn = "hold_threads"
    /\ pcs[t].pc = "read"
    /\ pcs' = [pcs EXCEPT ![t].pc = "done", ![t].ret = MySlot(t)[2]]
    /\ UNCHANGED <<args, result, lookup, history, last>>

NextHoldMT ==
    \E t \in Threads :
        Enter(t) \/ Check(t) \/ Compute(t) \/ Store(t) \/ ReadSlot(t)

SpecHoldMT == InitHoldMT /\ [][NextHoldMT]_vars

(* C10: when each caller uses its own hold(f) instance every call returns *)
(* f of its own arguments under every interleaving; with one shared       *)
(* wrapper a call still returns a value f computed for some caller's      *)
(* arguments, but not always its own (the witness).                       *)
C10_OwnInstance ==
    args.fn = "hold_threads" =>
        \A t \in Threads :
            pcs[t].pc = "done" =>
                /\ ~args.shared => pcs[t].ret = args.f[pcs[t].a]
                /\ \E u \in Threads, a \in ArgTuples :
                      /\ pcs[t].ret = args.f[a]
                      /\ last[SlotOf(args.shared, u)] # << >>

(* shared wrapper: thread 1 is handed the result of thread 2's arguments *)
C10_Witness ==
    /\ args.fn = "hold_threads"
    /\ args.shared
    /\ pcs[1].pc = "done"
    /\ pcs[2].pc \in {"read", "done"}
    /\ pcs[1].a # pcs[2].a
    /\ pcs[1].ret # args.f[pcs[1].a]
    /\ pcs[1].ret = args.f[pcs[2].a]

====
